---- MODULE Spec2Model ----
(***************************************************************************)
(* Dictionary (src/src/Dictionary.h): String key/value pairs kept in an    *)
(* unbalanced binary tree ordered by the CRC32 of the key, with a parallel *)
(* NodeArray Q holding every node for positional access.                   *)
(*                                                                         *)
(* A String is a sequence of bytes.  A uintNN_t (uint32_t) is a pair       *)
(* <<high 16 bits, low 16 bits>>, so that the 32-bit arithmetic of crc()   *)
(* is exact.  A node* is a natural number, NULL is 0; mem maps every       *)
(* address ever returned by `new node` to the node's fields, and freed is  *)
(* the set of addresses passed to `delete`.                                *)
(***************************************************************************)
EXTENDS Integers, Sequences, FiniteSets, TLC

\* ------------------------------------------------------------------ bounds

\* `new node` is called at most MaxNodes times (Spec).
MaxNodes == 4

\* `new node` is called at most MaxNodesEq times per Dictionary (SpecEq).
MaxNodesEq == 2

\* `new node` is called at most MaxNodesEver times (SpecEver).
MaxNodesEver == 3

\* `new node` is called at most MaxNodesLife times (SpecLife).
MaxNodesLife == 3

\* ----------------------------------------------------------------- strings

\* "c", "b", "a": crc 112844655 < 1908338681 < 3904355907
KeyC == <<99>>
KeyB == <<98>>
KeyA == <<97>>
\* "mufax" and "vcphgu": two distinct strings with the same crc, 2500001845
KeyM == <<109, 117, 102, 97, 120>>
KeyV == <<118, 99, 112, 104, 103, 117>>

Keys == {KeyC, KeyB, KeyA, KeyM, KeyV}

\* "" and "x"
EmptyString == << >>
ValX == <<120>>

Values == {EmptyString, ValX}

\* ------------------------------------------------------- uintNN_t (32 bit)

RECURSIVE XorN(_, _, _)
\* a ^ b on n-bit operands
XorN(a, b, n) ==
  IF n = 0 THEN 0
  ELSE ((a + b) % 2) + 2 * XorN(a \div 2, b \div 2, n - 1)

U32Xor(x, y) == <<XorN(x[1], y[1], 16), XorN(x[2], y[2], 16)>>

\* x >> 1
U32Shr1(x) == <<x[1] \div 2, (x[2] \div 2) + (x[1] % 2) * 32768>>

\* x >> 8
U32Shr8(x) == <<x[1] \div 256, (x[2] \div 256) + (x[1] % 256) * 256>>

\* (uint8_t)x
U8(x) == x[2] % 256

\* x < y
U32Less(x, y) == x[1] < y[1] \/ (x[1] = y[1] /\ x[2] < y[2])

\* 0xEDB88320
Poly == <<60856, 33568>>

\* 0xFF000000
TableMask == <<65280, 0>>

RECURSIVE TableEntry(_, _)
\* the inner loop of the constructor: j more rounds of
\* r = (r & 1 ? 0 : 0xEDB88320) ^ r >> 1
TableEntry(r, j) ==
  IF j = 0 THEN r
  ELSE TableEntry(U32Xor(IF r[2] % 2 = 1 THEN <<0, 0>> ELSE Poly, U32Shr1(r)),
                  j - 1)

\* table[i] = r ^ 0xFF000000
table == [i \in 0..255 |-> U32Xor(TableEntry(<<0, i>>, 8), TableMask)]

RECURSIVE crcLoop(_, _, _)
\* crc = table[(uint8_t)crc ^ data[i]] ^ crc >> 8, for i = from .. n_bytes
crcLoop(c, data, from) ==
  IF from > Len(data) THEN c
  ELSE crcLoop(U32Xor(table[XorN(U8(c), data[from], 8)], U32Shr8(c)),
               data, from + 1)

\* crc(const void* data, size_t n_bytes), computed
crcLoop0(data) == crcLoop(<<0, 0>>, data, 1)

\* crc of each key string, computed once
crcOfKey == [k \in Keys |-> crcLoop0(k)]

crc(data) == IF data \in Keys THEN crcOfKey[data] ELSE crcLoop0(data)

NULL == 0

\* ---------------------------------------------------------------- NodeArray

\* Q->append(n)
NodeArray_append(q, n) == Append(q, n)

\* Q->remove(n): by identity, the order of the others kept; no-op if absent
NodeArray_remove(q, n) == SelectSeq(q, LAMBDA x : x # n)

\* (*Q)[i], i counted from 0; NULL when i is out of range
NodeArray_get(q, i) == IF i >= Len(q) THEN NULL ELSE q[i + 1]

\* Q->count()
NodeArray_count(q) == Len(q)

\* ------------------------------------------------------------------- nodes

\* the fields of a node right after its creation in insert
Node(hkey, keystr, valstr) ==
  [key |-> hkey, keystr |-> keystr, valstr |-> valstr,
   left |-> NULL, right |-> NULL]

\* the memory of a node deleted by deleteNode
DeadNode == Node(<<0, 0>>, EmptyString, EmptyString)

\* A Dictionary object o is a record [iRoot, Q, mem, freed, uaf, dfree]:
\* uaf and dfree record that the running call dereferenced, or deleted
\* again, a node that was already deleted.

\* p->...: undefined behaviour when *p was deleted before
Deref(o, p) == IF p \in o.freed THEN [o EXCEPT !.uaf = TRUE] ELSE o

\* delete p
Delete(o, p) ==
  [o EXCEPT !.freed = @ \cup {p}, !.dfree = @ \/ (p \in o.freed)]

\* new node, its five fields set, and Q->append of it; the node's address
\* is Len(mem) + 1, never one used before
NewNode(o, hkey, keystr, valstr) ==
  [o EXCEPT !.mem = Append(@, Node(hkey, keystr, valstr)),
            !.Q = NodeArray_append(@, Len(o.mem) + 1)]

\* leaf->left = new node; ...; Q->append(leaf->left)
NewLeft(o, leaf, hkey, keystr, valstr) ==
  LET o1 == NewNode(o, hkey, keystr, valstr)
  IN  [o1 EXCEPT !.mem[leaf].left = Len(o1.mem)]

\* new node; ...; Q->append of it, leaf->right left as it was
NewRight_unlinked(o, leaf, hkey, keystr, valstr) ==
  NewNode(o, hkey, keystr, valstr)

\* leaf->right = new node; ...; Q->append(leaf->right)
NewRight(o, leaf, hkey, keystr, valstr) ==
  LET o1 == NewNode(o, hkey, keystr, valstr)
  IN  [o1 EXCEPT !.mem[leaf].right = Len(o1.mem)]

\* a new node made for a key that leaf already holds, linked between leaf
\* and its right child, leaf->valstr left as it was
Overwrite_asNew(o, leaf, valstr) ==
  LET o1 == NewNode(o, o.mem[leaf].key, o.mem[leaf].keystr, valstr)
  IN  [o1 EXCEPT !.mem[Len(o1.mem)].right = o.mem[leaf].right,
                 !.mem[leaf].right = Len(o1.mem)]

\* leaf->valstr = *valstr, and Q->append(leaf) as for a new node
OverwriteAppend(o, leaf, valstr) ==
  [o EXCEPT !.mem[leaf].valstr = valstr, !.Q = NodeArray_append(@, leaf)]

\* leaf->valstr = *valstr
Overwrite(o, leaf, valstr) == [o EXCEPT !.mem[leaf].valstr = valstr]

RECURSIVE insert_leaf(_, _, _, _, _)
\* insert(uintNN_t key, String* keystr, String* valstr, node* leaf)
insert_leaf(o, hkey, keystr, valstr, leaf) ==
  LET o1 == Deref(o, leaf)
      n  == o.mem[leaf]
  IN  IF U32Less(hkey, n.key)
      THEN IF n.left # NULL
           THEN insert_leaf(o1, hkey, keystr, valstr, n.left)
           ELSE NewLeft(o1, leaf, hkey, keystr, valstr)
      ELSE IF U32Less(n.key, hkey)
      THEN IF n.right # NULL
           THEN insert_leaf(o1, hkey, keystr, valstr, n.right)
           ELSE NewRight(o1, leaf, hkey, keystr, valstr)
      ELSE IF n.keystr = keystr
      THEN Overwrite(o1, leaf, valstr)
      ELSE IF n.right # NULL
           THEN insert_leaf(o1, hkey, keystr, valstr, n.right)
           ELSE NewRight(o1, leaf, hkey, keystr, valstr)

\* insert(String keystr, String valstr)
insert(o, keystr, valstr) ==
  LET hkey == crc(keystr)
  IN  IF o.iRoot # NULL
      THEN insert_leaf(o, hkey, keystr, valstr, o.iRoot)
      ELSE LET o1 == NewNode(o, hkey, keystr, valstr)
           IN  [o1 EXCEPT !.iRoot = Len(o1.mem)]

RECURSIVE search_leaf_hashonly(_, _, _, _)
\* search without the comparison of the key strings: the first node on the
\* way whose hash is the one looked for
search_leaf_hashonly(o, hkey, leaf, keystr) ==
  IF leaf # NULL
  THEN LET n == o.mem[leaf]
           r == IF hkey = n.key
                THEN [p |-> leaf, uaf |-> FALSE]
                ELSE IF U32Less(hkey, n.key)
                THEN search_leaf_hashonly(o, hkey, n.left, keystr)
                ELSE search_leaf_hashonly(o, hkey, n.right, keystr)
       IN  [r EXCEPT !.uaf = @ \/ (leaf \in o.freed)]
  ELSE [p |-> NULL, uaf |-> FALSE]

RECURSIVE search_leaf(_, _, _, _)
\* search(uintNN_t key, node* leaf, String* keystr): the node found, or
\* NULL, and whether the descent read a deleted node
search_leaf(o, hkey, leaf, keystr) ==
  IF leaf # NULL
  THEN LET n == o.mem[leaf]
           r == IF hkey = n.key /\ n.keystr = keystr
                THEN [p |-> leaf, uaf |-> FALSE]
                ELSE IF U32Less(hkey, n.key)
                THEN search_leaf(o, hkey, n.left, keystr)
                ELSE search_leaf(o, hkey, n.right, keystr)
       IN  [r EXCEPT !.uaf = @ \/ (leaf \in o.freed)]
  ELSE [p |-> NULL, uaf |-> FALSE]

\* search(String keystr)
search(o, keystr) ==
  LET p == search_leaf(o, crc(keystr), o.iRoot, keystr).p
  IN  IF p # NULL THEN o.mem[p].valstr ELSE EmptyString

\* the key taken to exist when search returns a non-empty value for it
operatorCall_byValue(o, keystr) == search(o, keystr) # EmptyString

\* operator () (String keystr)
operatorCall(o, keystr) ==
  LET p == search_leaf(o, crc(keystr), o.iRoot, keystr).p
  IN  IF p # NULL THEN TRUE ELSE FALSE

\* minValueNode without the descent to the left: n itself
minValueNode_noDescent(o, n) == n

RECURSIVE minValueNode(_, _)
\* minValueNode(node* n)
minValueNode(o, n) ==
  IF n # NULL /\ o.mem[n].left # NULL
  THEN minValueNode(o, o.mem[n].left)
  ELSE n

\* Q->remove(root) without delete root
Unlink_noDelete(o, root) == [o EXCEPT !.Q = NodeArray_remove(@, root)]

\* delete root without Q->remove(root)
UnlinkKeepInQ(o, root) == Delete([o EXCEPT !.mem[root] = DeadNode], root)

\* Q->remove(root); delete root.  No pointer to the node is left once
\* deleteNode has returned (NoPointerToUnlinked), so what its memory holds
\* afterwards cannot be read again and is not kept.
Unlink(o, root) ==
  Delete([o EXCEPT !.Q = NodeArray_remove(@, root), !.mem[root] = DeadNode],
         root)

\* root->key = temp->key; root->keystr = temp->keystr, the value not copied
CopySuccessorNoValue(o, root, temp) ==
  [o EXCEPT !.mem[root].key = o.mem[temp].key,
            !.mem[root].keystr = o.mem[temp].keystr]

\* root->key = temp->key; root->keystr = temp->keystr;
\* root->valstr = temp->valstr
CopySuccessor(o, root, temp) ==
  [o EXCEPT !.mem[root].key = o.mem[temp].key,
            !.mem[root].keystr = o.mem[temp].keystr,
            !.mem[root].valstr = o.mem[temp].valstr]

\* the node with the hash looked for taken for the one to delete, its key
\* string not compared
deleteNode_match_any(n, keystr) == TRUE

\* root->keystr == *keystr
deleteNode_match(n, keystr) == n.keystr = keystr

RECURSIVE deleteNode(_, _, _, _)
\* deleteNode(node* root, uintNN_t key, String* keystr): the object after
\* the call and the node returned
deleteNode(o, root, hkey, keystr) ==
  IF root = NULL
  THEN [o |-> o, ret |-> root]
  ELSE
    LET o1 == Deref(o, root)
        n  == o.mem[root]
    IN  IF U32Less(hkey, n.key)
        THEN LET r == deleteNode(o1, n.left, hkey, keystr)
             IN  [o |-> [r.o EXCEPT !.mem[root].left = r.ret], ret |-> root]
        ELSE IF U32Less(n.key, hkey)
        THEN LET r == deleteNode(o1, n.right, hkey, keystr)
             IN  [o |-> [r.o EXCEPT !.mem[root].right = r.ret], ret |-> root]
        ELSE IF deleteNode_match(n, keystr)
        THEN IF n.left = NULL
             THEN [o |-> Unlink(o1, root), ret |-> n.right]
             ELSE IF n.right = NULL
             THEN [o |-> Unlink(o1, root), ret |-> n.left]
             ELSE LET temp == minValueNode(o1, n.right)
                      o2   == CopySuccessor(o1, root, temp)
                      r    == deleteNode(o2, o2.mem[root].right,
                                         o2.mem[temp].key, o2.mem[temp].keystr)
                  IN  [o |-> [r.o EXCEPT !.mem[root].right = r.ret],
                       ret |-> root]
        ELSE LET r == deleteNode(o1, n.right, hkey, keystr)
             IN  [o |-> [r.o EXCEPT !.mem[root].right = r.ret], ret |-> root]

\* remove that looks for the hash alone and deletes the node it finds
remove_byhash(o, keystr) ==
  LET hkey == crc(keystr)
      f    == search_leaf_hashonly(o, hkey, o.iRoot, keystr)
      o1   == [o EXCEPT !.uaf = @ \/ f.uaf]
  IN  IF f.p # NULL
      THEN LET r == deleteNode(o1, o1.iRoot, o1.mem[f.p].key,
                               o1.mem[f.p].keystr)
           IN  [r.o EXCEPT !.iRoot = r.ret]
      ELSE o1

\* remove(String keystr)
remove(o, keystr) ==
  LET hkey == crc(keystr)
      f    == search_leaf(o, hkey, o.iRoot, keystr)
      o1   == [o EXCEPT !.uaf = @ \/ f.uaf]
  IN  IF f.p # NULL
      THEN LET r == deleteNode(o1, o1.iRoot, o1.mem[f.p].key, keystr)
           IN  [r.o EXCEPT !.iRoot = r.ret]
      ELSE o1

RECURSIVE destroy_tree(_, _)
\* destroy_tree(node* leaf)
destroy_tree(o, leaf) ==
  IF leaf # NULL
  THEN LET o1 == destroy_tree(Deref(o, leaf), o.mem[leaf].left)
           o2 == destroy_tree(o1, o.mem[leaf].right)
       IN  Delete(o2, leaf)
  ELSE o

\* destroy() without the replacement of Q: destroy_tree(iRoot) alone
destroy_keepQ(o) == destroy_tree(o, o.iRoot)

\* destroy(): destroy_tree(iRoot); delete Q; Q = new NodeArray(initSize)
destroy(o) == [destroy_tree(o, o.iRoot) EXCEPT !.Q = << >>]

\* ~Dictionary(): destroy(); delete Q
destructor(o) == destroy(o)

\* count()
count(o) == NodeArray_count(o.Q)

\* key(unsigned int i)
key(o, i) ==
  LET p == NodeArray_get(o.Q, i)
  IN  IF p # NULL THEN o.mem[p].keystr ELSE EmptyString

\* value(unsigned int i)
value(o, i) ==
  LET p == NodeArray_get(o.Q, i)
  IN  IF p # NULL THEN o.mem[p].valstr ELSE EmptyString

RECURSIVE sizeLoop_noTrailing(_, _)
\* the loop of size() without the 2 added for each entry
sizeLoop_noTrailing(o, i) ==
  IF i < count(o)
  THEN Len(key(o, i)) + Len(value(o, i)) + sizeLoop_noTrailing(o, i + 1)
  ELSE 0

RECURSIVE sizeLoop(_, _)
\* the loop of size(), from index i on
sizeLoop(o, i) ==
  IF i < count(o)
  THEN Len(key(o, i)) + Len(value(o, i)) + 2 + sizeLoop(o, i + 1)
  ELSE 0

\* size()
size(o) == sizeLoop(o, 0)

\* operator == comparing the two index arrays position by position
equals_positional(a, b) ==
  IF size(b) # size(a) THEN FALSE
  ELSE IF count(b) # count(a) THEN FALSE
  ELSE \A i \in 0..(count(a) - 1) :
         key(a, i) = key(b, i) /\ value(a, i) = value(b, i)

\* operator == (Dictionary& b), called on a
equals(a, b) ==
  IF size(b) # size(a) THEN FALSE
  ELSE IF count(b) # count(a) THEN FALSE
  ELSE \A i \in 0..(count(a) - 1) : value(a, i) = search(b, key(a, i))

\* ------------------------------------------------------------------- state

\* Two Dictionary objects, a and b.  iRoot, Q: the fields of each; mem, freed:
\* the nodes each has allocated and deleted; uaf, dfree: a call on it has
\* dereferenced, or deleted again, a deleted node; crashed: such a call
\* ended the program.
\* History of the calls made on each: live (the value last inserted for each
\* key not removed since), order (those keys in the order of the inserts
\* that made them live), everInserted (every key ever inserted), created
\* (inserts of a key that was not live), removed (removes of a key that was
\* live), destroyed (destroy() was called), lastOp (the last call: its name,
\* whether its key was live before it, whether the key's node had two
\* children before it, and whether another live key had the key's crc).
VARIABLES iRoot, Q, mem, freed, uaf, dfree, crashed,
          live, order, everInserted, created, removed, destroyed, lastOp

vars == <<iRoot, Q, mem, freed, uaf, dfree, crashed,
          live, order, everInserted, created, removed, destroyed, lastOp>>

Dicts == {"a", "b"}

\* the keys used where both objects are compared
KeysEq == {KeyB, KeyM, KeyV}

\* the keys used where the object is destroyed
KeysLife == {KeyC, KeyB, KeyM, KeyV}

NoEntries == [k \in {} |-> EmptyString]

\* the object d at the start of a call
Obj(d) ==
  [iRoot |-> iRoot[d], Q |-> Q[d], mem |-> mem[d], freed |-> freed[d],
   uaf |-> FALSE, dfree |-> FALSE]

\* the node of keystr in o has a left and a right child
HasTwoChildren(o, keystr) ==
  LET p == search_leaf(o, crc(keystr), o.iRoot, keystr).p
  IN  p # NULL /\ o.mem[p].left # NULL /\ o.mem[p].right # NULL

\* another key, live in d, has the crc of keystr
Collides(d, keystr) ==
  \E k \in DOMAIN live[d] : k # keystr /\ crc(k) = crc(keystr)

\* Dictionary(size_t init_size)
Init ==
  /\ iRoot = [d \in Dicts |-> NULL]
  /\ Q = [d \in Dicts |-> << >>]
  /\ mem = [d \in Dicts |-> << >>]
  /\ freed = [d \in Dicts |-> {}]
  /\ uaf = [d \in Dicts |-> FALSE]
  /\ dfree = [d \in Dicts |-> FALSE]
  /\ crashed = [d \in Dicts |-> FALSE]
  /\ live = [d \in Dicts |-> NoEntries]
  /\ order = [d \in Dicts |-> << >>]
  /\ everInserted = [d \in Dicts |-> {}]
  /\ created = [d \in Dicts |-> 0]
  /\ removed = [d \in Dicts |-> 0]
  /\ destroyed = [d \in Dicts |-> FALSE]
  /\ lastOp = [op |-> "new", was |-> FALSE, two |-> FALSE, coll |-> FALSE]

\* The object d after a call left it as o.  A call that dereferenced or
\* deleted a deleted node has undefined behaviour: it either goes on with
\* what the deleted nodes still hold, or ends the program.
Commit(d, o) ==
  /\ iRoot' = [iRoot EXCEPT ![d] = o.iRoot]
  /\ Q' = [Q EXCEPT ![d] = o.Q]
  /\ mem' = [mem EXCEPT ![d] = o.mem]
  /\ freed' = [freed EXCEPT ![d] = o.freed]
  /\ uaf' = [uaf EXCEPT ![d] = @ \/ o.uaf]
  /\ dfree' = [dfree EXCEPT ![d] = @ \/ o.dfree]
  /\ \E c \in (IF o.uaf \/ o.dfree THEN BOOLEAN ELSE {FALSE}) :
       crashed' = [crashed EXCEPT ![d] = c]

\* d.insert(keystr, valstr), while it is neither the allocation nor the
\* insert of a key that is not live number maxn + 1
Insert(d, keystr, valstr, maxn) ==
  /\ ~crashed[d]
  /\ keystr \in DOMAIN live[d] \/ created[d] < maxn
  /\ LET o == insert(Obj(d), keystr, valstr)
     IN  Len(o.mem) <= maxn /\ Commit(d, o)
  /\ live' = [live EXCEPT ![d] =
                [k \in DOMAIN @ \cup {keystr} |->
                   IF k = keystr THEN valstr ELSE @[k]]]
  /\ order' = [order EXCEPT ![d] =
                 IF keystr \in DOMAIN live[d] THEN @ ELSE Append(@, keystr)]
  /\ created' = [created EXCEPT ![d] =
                   IF keystr \in DOMAIN live[d] THEN @ ELSE @ + 1]
  /\ lastOp' = [op |-> "insert", was |-> keystr \in DOMAIN live[d],
                two |-> FALSE, coll |-> Collides(d, keystr)]
  /\ UNCHANGED <<removed, destroyed>>

\* d.remove(keystr)
Remove(d, keystr) ==
  /\ ~crashed[d]
  /\ Commit(d, remove(Obj(d), keystr))
  /\ live' = [live EXCEPT ![d] = [k \in DOMAIN @ \ {keystr} |-> @[k]]]
  /\ order' = [order EXCEPT ![d] = SelectSeq(@, LAMBDA k : k # keystr)]
  /\ removed' = [removed EXCEPT ![d] =
                   IF keystr \in DOMAIN live[d] THEN @ + 1 ELSE @]
  /\ lastOp' = [op |-> "remove", was |-> keystr \in DOMAIN live[d],
                two |-> HasTwoChildren(Obj(d), keystr),
                coll |-> Collides(d, keystr)]
  /\ UNCHANGED <<created, destroyed>>

\* d.destroy()
Destroy(d) ==
  /\ ~crashed[d]
  /\ Commit(d, destroy(Obj(d)))
  /\ live' = [live EXCEPT ![d] = NoEntries]
  /\ order' = [order EXCEPT ![d] = << >>]
  /\ destroyed' = [destroyed EXCEPT ![d] = TRUE]
  /\ lastOp' = [op |-> "destroy", was |-> FALSE, two |-> FALSE,
                coll |-> FALSE]
  /\ UNCHANGED <<created, removed>>

\* insert and remove on one Dictionary
Next ==
  \/ \E k \in Keys, v \in Values :
       Insert("a", k, v, MaxNodes) /\ UNCHANGED everInserted
  \/ \E k \in Keys :
       Remove("a", k) /\ UNCHANGED everInserted

Spec == Init /\ [][Next]_vars

\* insert and remove on one Dictionary, the keys ever inserted recorded
NextEver ==
  \/ \E k \in Keys, v \in Values :
       /\ Insert("a", k, v, MaxNodesEver)
       /\ everInserted' = [everInserted EXCEPT !["a"] = @ \cup {k}]
  \/ \E k \in Keys :
       Remove("a", k) /\ UNCHANGED everInserted

SpecEver == Init /\ [][NextEver]_vars

\* insert and remove on two Dictionaries
NextEq ==
  \/ \E d \in Dicts, k \in KeysEq, v \in Values :
       Insert(d, k, v, MaxNodesEq) /\ UNCHANGED everInserted
  \/ \E d \in Dicts, k \in KeysEq :
       Remove(d, k) /\ UNCHANGED everInserted

SpecEq == Init /\ [][NextEq]_vars

\* ~Dictionary() on d, after which no call is made on it
Destructor(d) ==
  /\ ~crashed[d]
  /\ Commit(d, destructor(Obj(d)))
  /\ live' = [live EXCEPT ![d] = NoEntries]
  /\ order' = [order EXCEPT ![d] = << >>]
  /\ lastOp' = [op |-> "~Dictionary", was |-> FALSE, two |-> FALSE,
                coll |-> FALSE]
  /\ UNCHANGED <<created, removed, destroyed>>

\* the object has not been destructed
Alive == lastOp.op # "~Dictionary"

\* insert, remove and destroy on one Dictionary, and its destructor
NextLife ==
  \/ \E k \in KeysLife, v \in Values :
       Alive /\ Insert("a", k, v, MaxNodesLife) /\ UNCHANGED everInserted
  \/ \E k \in KeysLife :
       Alive /\ Remove("a", k) /\ UNCHANGED everInserted
  \/ Alive /\ Destroy("a") /\ UNCHANGED everInserted
  \/ Alive /\ Destructor("a") /\ UNCHANGED everInserted

SpecLife == Init /\ [][NextLife]_vars

\* ------------------------------------------------------------------ claims

ObjA == Obj("a")
ObjB == Obj("b")

\* the object a after the step
ObjANext ==
  [iRoot |-> iRoot'["a"], Q |-> Q'["a"], mem |-> mem'["a"],
   freed |-> freed'["a"], uaf |-> FALSE, dfree |-> FALSE]

\* the value search is to return for key k of object d, by the calls made
Expected(d, k) == IF k \in DOMAIN live[d] THEN live[d][k] ELSE EmptyString

\* the node of key k in object o, or NULL
NodeOf(o, k) == search_leaf(o, crc(k), o.iRoot, k).p

\* No pointer of an object (iRoot, an entry of Q, a child link of a node
\* not itself unlinked) is to a node deleteNode has unlinked.
NoPointerToUnlinked ==
  \A d \in Dicts :
    LET dead == {p \in freed[d] : mem[d][p] = DeadNode}
    IN  /\ iRoot[d] \notin dead
        /\ \A i \in 1..Len(Q[d]) : Q[d][i] \notin dead
        /\ \A p \in (1..Len(mem[d])) \ dead :
             mem[d][p].left \notin dead /\ mem[d][p].right \notin dead

\* C1: after any sequence of insert and remove on a fresh Dictionary, for
\* every key k search(k) returns the value of the latest insert(k, v) not
\* followed by remove(k), and the empty string when there is none.
C1_SearchReturnsLastInsert ==
  \A k \in Keys : search(ObjA, k) = Expected("a", k)

\* C1 witness: both colliding keys are live with different values, a key
\* was removed before, and the last call overwrote the value of a live key.
C1_Witness ==
  /\ {KeyM, KeyV} \subseteq DOMAIN live["a"]
  /\ live["a"][KeyM] # live["a"][KeyV]
  /\ removed["a"] >= 1
  /\ lastOp.op = "insert" /\ lastOp.was
  /\ search(ObjA, KeyM) = live["a"][KeyM]

\* C2: after destroy() on a Dictionary that held an entry the root
\* reference is null, no later call reads or links to a node destroy()
\* deleted, and search, count(), key(i) and value(i) answer as they would
\* on a new Dictionary given the calls made since.
C2_AfterDestroyAsFresh ==
  destroyed["a"] =>
    /\ lastOp.op = "destroy" => iRoot["a"] = NULL
    /\ ~uaf["a"] /\ ~dfree["a"] /\ ~crashed["a"]
    /\ \A k \in Keys : search(ObjA, k) = Expected("a", k)
    /\ count(ObjA) = Cardinality(DOMAIN live["a"])
    /\ \A i \in 0..(count(ObjA) - 1) :
         /\ key(ObjA, i) \in DOMAIN live["a"]
         /\ value(ObjA, i) = Expected("a", key(ObjA, i))

\* C3: operator == is symmetric: (a == b) and (b == a) return the same.
C3_EqualsSymmetric == equals(ObjA, ObjB) = equals(ObjB, ObjA)

\* C4: two Dictionaries left with the same set of (key, value) pairs by any
\* two sequences of insert and remove are equal: a == b returns true.
C4_EqualRegardlessOfOrder ==
  live["a"] = live["b"] => equals(ObjA, ObjB)

\* C4 witness: a and b hold the same two pairs, in a different order of
\* their index arrays and under different roots.
C4_Witness ==
  /\ live["a"] = live["b"]
  /\ Cardinality(DOMAIN live["a"]) = 2
  /\ key(ObjA, 0) # key(ObjB, 0)
  /\ mem["a"][iRoot["a"]].keystr # mem["b"][iRoot["b"]].keystr
  /\ equals(ObjA, ObjB)

\* C5: key(0), ..., key(count()-1) are the live keys in the order of the
\* inserts that made them live, and value(i) is the value stored for key(i).
C5_PositionalInInsertionOrder ==
  /\ count(ObjA) = Len(order["a"])
  /\ \A i \in 0..(count(ObjA) - 1) :
       /\ key(ObjA, i) = order["a"][i + 1]
       /\ value(ObjA, i) = Expected("a", key(ObjA, i))

\* C6: count() is the number of distinct keys ever inserted minus the
\* number of remove calls that found and removed a key.
C6_CountDistinctEverMinusRemoved ==
  count(ObjA) = Cardinality(everInserted["a"]) - removed["a"]

\* C6 amended: count() is the number of insert calls whose key was not live
\* when they were made minus the number of remove calls that found and
\* removed a key.
C6_CountCreatedMinusRemoved ==
  count(ObjA) = created["a"] - removed["a"]

\* C6 witness: a key was inserted again after its removal, so that more
\* inserts made a key live than there are distinct keys ever inserted.
C6_Witness ==
  /\ created["a"] > Cardinality(everInserted["a"])
  /\ removed["a"] >= 1
  /\ count(ObjA) >= 1

\* C7: insert(k, v2) of a live key k sets the stored value of k to v2 and
\* leaves count(), the tree (root, links, hashes and key strings), the
\* index array and every other key's value unchanged.
C7_OverwriteFrame ==
  [][\A k \in Keys, v \in Values :
       (/\ lastOp'.op = "insert" /\ k \in DOMAIN live["a"]
        /\ live'["a"] = [live["a"] EXCEPT ![k] = v]
        /\ Insert("a", k, v, MaxNodes)) =>
         /\ NodeOf(ObjA, k) # NULL
         /\ mem'["a"] = [mem["a"] EXCEPT ![NodeOf(ObjA, k)].valstr = v]
         /\ iRoot'["a"] = iRoot["a"]
         /\ Q'["a"] = Q["a"]
         /\ freed'["a"] = freed["a"]
         /\ count(ObjANext) = count(ObjA)
         /\ search(ObjANext, k) = v
         /\ \A i \in 0..(count(ObjA) - 1) :
              /\ key(ObjANext, i) = key(ObjA, i)
              /\ key(ObjA, i) # k => value(ObjANext, i) = value(ObjA, i)]_vars

\* C7 witness: the last call inserted a live key, with three keys live.
C7_Witness ==
  lastOp.op = "insert" /\ lastOp.was /\ count(ObjA) = 3

\* C8: remove(k) of a key whose node has a left and a right child makes
\* search(k) return the empty string, lowers count() by exactly 1 and
\* leaves search(k2) as it was for every other live key k2.
C8_TwoChildRemoveKeepsOthers ==
  [][\A k \in Keys :
       (/\ lastOp'.op = "remove" /\ HasTwoChildren(ObjA, k)
        /\ Remove("a", k)) =>
         /\ search(ObjANext, k) = EmptyString
         /\ NodeOf(ObjANext, k) = NULL
         /\ count(ObjANext) = count(ObjA) - 1
         /\ \A k2 \in DOMAIN live["a"] \ {k} :
              /\ NodeOf(ObjANext, k2) # NULL
              /\ search(ObjANext, k2) = search(ObjA, k2)
              /\ search(ObjANext, k2) = live["a"][k2]]_vars

\* C8 witness: a key whose node had two children was removed, and its
\* in-order successor, one of the two colliding keys, is live with the
\* other, the two with different values.
C8_Witness ==
  /\ lastOp.op = "remove" /\ lastOp.was /\ lastOp.two
  /\ DOMAIN live["a"] = {KeyC, KeyM, KeyV}
  /\ live["a"][KeyM] # live["a"][KeyV]
  /\ created["a"] = 4 /\ removed["a"] = 1

\* the two keys have the same hash and are different strings
Colliding(k1, k2) == k1 # k2 /\ crc(k1) = crc(k2)

\* C9: two distinct keys with the same hash, inserted in either order among
\* other keys, are both live at once (each has its own entry of the index
\* array) and search returns each one's own value; remove(k1) removes k1
\* alone, search(k2) still returning the value of k2.
C9_Collisions ==
  /\ [](\A k1 \in Keys, k2 \in Keys :
          (Colliding(k1, k2) /\ {k1, k2} \subseteq DOMAIN live["a"]) =>
            /\ NodeOf(ObjA, k1) # NULL /\ NodeOf(ObjA, k2) # NULL
            /\ NodeOf(ObjA, k1) # NodeOf(ObjA, k2)
            /\ \E i, j \in 0..(count(ObjA) - 1) :
                 /\ i # j
                 /\ key(ObjA, i) = k1 /\ value(ObjA, i) = live["a"][k1]
                 /\ key(ObjA, j) = k2 /\ value(ObjA, j) = live["a"][k2]
            /\ search(ObjA, k1) = live["a"][k1]
            /\ search(ObjA, k2) = live["a"][k2])
  /\ [][\A k1 \in Keys, k2 \in Keys :
          (/\ lastOp'.op = "remove" /\ Colliding(k1, k2)
           /\ {k1, k2} \subseteq DOMAIN live["a"]
           /\ Remove("a", k1)) =>
            /\ NodeOf(ObjANext, k1) = NULL
            /\ search(ObjANext, k1) = EmptyString
            /\ search(ObjANext, k2) = live["a"][k2]
            /\ count(ObjANext) = count(ObjA) - 1]_vars

\* C9 witness: a live key was removed while a live key with the same hash
\* stayed, which search still finds among two other keys.
C9_Witness ==
  /\ lastOp.op = "remove" /\ lastOp.was /\ lastOp.coll
  /\ count(ObjA) = 3
  /\ \E k \in {KeyM, KeyV} :
       k \in DOMAIN live["a"] /\ search(ObjA, k) = ValX

\* C10: remove(k) of a key that is not live (never inserted, removed
\* already, or colliding with a live key) changes nothing: the tree, the
\* index array, count(), size() and every search result stay as they were,
\* and no deleted node is touched.
C10_RemoveAbsentIsNoOp ==
  [][\A k \in Keys :
       (/\ lastOp'.op = "remove" /\ ~lastOp'.was
        /\ k \notin DOMAIN live["a"]
        /\ Remove("a", k)) =>
         /\ iRoot'["a"] = iRoot["a"]
         /\ mem'["a"] = mem["a"]
         /\ Q'["a"] = Q["a"]
         /\ freed'["a"] = freed["a"]
         /\ count(ObjANext) = count(ObjA)
         /\ size(ObjANext) = size(ObjA)
         /\ \A k2 \in Keys : search(ObjANext, k2) = search(ObjA, k2)
         /\ ~uaf'["a"] /\ ~dfree'["a"] /\ ~crashed'["a"]]_vars

\* C10 witness: the last call removed a key that was not live while a key
\* with the same hash was live, among three live keys.
C10_Witness ==
  /\ lastOp.op = "remove" /\ ~lastOp.was /\ lastOp.coll
  /\ count(ObjA) = 3 /\ removed["a"] >= 1

RECURSIVE EntryBytes(_, _)
\* the sum of len(key) + len(value) + 2 over the keys S of the entries f
EntryBytes(f, S) ==
  IF S = {} THEN 0
  ELSE LET k == CHOOSE x \in S : TRUE
       IN  Len(k) + Len(f[k]) + 2 + EntryBytes(f, S \ {k})

\* C11: after any sequence of insert and remove, size() is the sum over the
\* live (key, value) entries of len(key) + len(value) + 2, and 0 when no
\* key is live.
C11_SizeIsSumOfLive ==
  /\ size(ObjA) = EntryBytes(live["a"], DOMAIN live["a"])
  /\ DOMAIN live["a"] = {} => size(ObjA) = 0

\* C11 witness: after the removal of a key whose node had two children,
\* three keys of different lengths are live, with an empty and a non-empty
\* value among them.
C11_Witness ==
  /\ lastOp.op = "remove" /\ lastOp.was /\ lastOp.two
  /\ DOMAIN live["a"] = {KeyC, KeyM, KeyV}
  /\ live["a"][KeyM] = ValX /\ live["a"][KeyV] = EmptyString
  /\ size(ObjA) = 1 + Len(live["a"][KeyC]) + 2 + 5 + 1 + 2 + 6 + 0 + 2

\* C12: right after destroy() on a Dictionary holding any number of
\* entries, count() is 0, size() is 0, and key(i) and value(i) return the
\* empty string for every index i.
C12_AfterDestroyEmpty ==
  (lastOp.op = "destroy" /\ ~crashed["a"]) =>
    /\ count(ObjA) = 0
    /\ size(ObjA) = 0
    /\ \A i \in 0..MaxNodesLife :
         key(ObjA, i) = EmptyString /\ value(ObjA, i) = EmptyString

\* C12 witness: destroy() was just called on a Dictionary that held two
\* entries or more, one of them with a non-empty value, and deleted
\* their nodes.
C12_Witness ==
  /\ lastOp.op = "destroy" /\ ~crashed["a"]
  /\ ~uaf["a"] /\ ~dfree["a"]
  /\ created["a"] - removed["a"] >= 2
  /\ Cardinality({p \in freed["a"] : mem["a"][p] # DeadNode}) >= 2
  /\ \E p \in freed["a"] : mem["a"][p].valstr = ValX
  /\ count(ObjA) = 0 /\ key(ObjA, 0) = EmptyString

\* C13: operator == is reflexive: after any sequence of insert and remove,
\* a == a returns true, that is, search(key(i)) = value(i) for every
\* i < count().
C13_EqualsReflexive ==
  /\ equals(ObjA, ObjA)
  /\ \A i \in 0..(count(ObjA) - 1) :
       search(ObjA, key(ObjA, i)) = value(ObjA, i)

\* C13 witness: a == a is true with the two colliding keys live under
\* different values next to a third key, after a removal.
C13_Witness ==
  /\ count(ObjA) = 3 /\ removed["a"] >= 1
  /\ {KeyM, KeyV} \subseteq DOMAIN live["a"]
  /\ live["a"][KeyM] # live["a"][KeyV]
  /\ \E i, j \in 0..2 :
       /\ key(ObjA, i) = KeyM /\ key(ObjA, j) = KeyV
       /\ value(ObjA, i) # value(ObjA, j)
  /\ equals(ObjA, ObjA)

\* C14: after any sequence of insert and remove, operator()(key) returns
\* true exactly when key is live; it returns true for a live key stored
\* with the empty string, for which search(key) returns the empty string
\* as it does for an absent key.
C14_ExistsIffLive ==
  \A k \in Keys :
    /\ operatorCall(ObjA, k) = (k \in DOMAIN live["a"])
    /\ (k \in DOMAIN live["a"] /\ live["a"][k] = EmptyString) =>
         operatorCall(ObjA, k) /\ search(ObjA, k) = EmptyString
    /\ k \notin DOMAIN live["a"] =>
         ~operatorCall(ObjA, k) /\ search(ObjA, k) = EmptyString

\* C14 witness: of the two colliding keys one is live with the empty
\* string and found to exist, the other was removed and is found not to
\* exist, and search returns the empty string for both.
C14_Witness ==
  /\ lastOp.op = "remove" /\ lastOp.was /\ lastOp.coll
  /\ \E k1, k2 \in {KeyM, KeyV} :
       /\ k1 \in DOMAIN live["a"] /\ live["a"][k1] = EmptyString
       /\ k2 \notin DOMAIN live["a"]
       /\ operatorCall(ObjA, k1) /\ ~operatorCall(ObjA, k2)
       /\ search(ObjA, k1) = search(ObjA, k2)
  /\ count(ObjA) >= 2

RECURSIVE Reachable(_, _)
\* the nodes reached from node p of o through left and right links
Reachable(o, p) ==
  IF p = NULL THEN {}
  ELSE {p} \cup Reachable(o, o.mem[p].left) \cup Reachable(o, o.mem[p].right)

\* C15: after every insert, remove and destroy, the node references held
\* in the index array Q are exactly the nodes reachable from iRoot through
\* left and right links, each of them once in Q.
C15_QMirrorsTree ==
  /\ {Q["a"][i] : i \in 1..Len(Q["a"])} = Reachable(ObjA, iRoot["a"])
  /\ \A i, j \in 1..Len(Q["a"]) : i # j => Q["a"][i] # Q["a"][j]

\* C16: after any sequence of insert and remove, for every node N of the
\* tree every node of N's left subtree has a hash strictly less than N's
\* and every node of N's right subtree has a hash greater than or equal
\* to N's.
C16_TreeOrdered ==
  \A n \in Reachable(ObjA, iRoot["a"]) :
    /\ \A m \in Reachable(ObjA, mem["a"][n].left) :
         U32Less(mem["a"][m].key, mem["a"][n].key)
    /\ \A m \in Reachable(ObjA, mem["a"][n].right) :
         ~U32Less(mem["a"][m].key, mem["a"][n].key)

\* C16 witness: after the removal of a live key, the root holds one of the
\* two colliding keys and the other is deeper in its right subtree, as the
\* left child of a node with a larger hash.
C16_Witness ==
  /\ lastOp.op = "remove" /\ lastOp.was
  /\ iRoot["a"] # NULL
  /\ LET r == mem["a"][iRoot["a"]]
     IN  /\ r.right # NULL
         /\ mem["a"][r.right].left # NULL
         /\ U32Less(r.key, mem["a"][r.right].key)
         /\ mem["a"][mem["a"][r.right].left].key = r.key
         /\ mem["a"][mem["a"][r.right].left].keystr # r.keystr

\* C17: after every insert and remove, no two nodes reachable from iRoot
\* hold the same (hash, key string) pair, and no key string is at two
\* positions of key(0), ..., key(count() - 1).
C17_KeysUnique ==
  /\ \A n, m \in Reachable(ObjA, iRoot["a"]) :
       n # m => \/ mem["a"][n].key # mem["a"][m].key
                \/ mem["a"][n].keystr # mem["a"][m].keystr
  /\ \A i, j \in 0..(count(ObjA) - 1) :
       i # j => key(ObjA, i) # key(ObjA, j)

\* C17 witness: a live key was just inserted again, with three keys live,
\* the two colliding keys among them, after a removal that copied a
\* successor into an older node (the index array is no longer in the order
\* of the inserts).
C17_Witness ==
  /\ lastOp.op = "insert" /\ lastOp.was
  /\ count(ObjA) = 3 /\ removed["a"] >= 1
  /\ {KeyM, KeyV} \subseteq DOMAIN live["a"]
  /\ \E i \in 0..2 : key(ObjA, i) # order["a"][i + 1]
  /\ Cardinality({key(ObjA, i) : i \in 0..2}) = 3

\* C18: every remove(k) of a live key takes out of the index array and
\* deletes exactly one node, which has at most one child when it is
\* removed; when the node of k has two children it stays in the tree and
\* at its position of the index array, now holding the hash, key and value
\* of its in-order successor, and the successor's node is the one removed.
C18_RemoveFreesOneNode ==
  [][\A k \in Keys :
       (/\ lastOp'.op = "remove" /\ lastOp'.was
        /\ k \in DOMAIN live["a"] /\ k \notin DOMAIN live'["a"]
        /\ Remove("a", k)) =>
         LET n   == NodeOf(ObjA, k)
             two == HasTwoChildren(ObjA, k)
             p   == IF two THEN minValueNode(ObjA, mem["a"][n].right) ELSE n
         IN  /\ n # NULL /\ p # NULL /\ p \notin freed["a"]
             /\ freed'["a"] = freed["a"] \cup {p}
             /\ Q'["a"] = NodeArray_remove(Q["a"], p)
             /\ Len(Q'["a"]) = Len(Q["a"]) - 1
             /\ mem["a"][p].left = NULL \/ mem["a"][p].right = NULL
             /\ p \notin Reachable(ObjANext, iRoot'["a"])
             /\ ~uaf'["a"] /\ ~dfree'["a"]
             /\ two =>
                  /\ p # n /\ mem["a"][p].left = NULL
                  /\ n \notin freed'["a"]
                  /\ n \in Reachable(ObjANext, iRoot'["a"])
                  /\ \E i \in 1..Len(Q'["a"]) :
                       Q["a"][i] = n /\ Q'["a"][i] = n
                  /\ mem'["a"][n].key = mem["a"][p].key
                  /\ mem'["a"][n].keystr = mem["a"][p].keystr
                  /\ mem'["a"][n].valstr = mem["a"][p].valstr
                  /\ mem'["a"][n].left = mem["a"][n].left]_vars

\* C18 witness: a key whose node had two children was just removed; the
\* node, which is the root, is in the tree and first in the index array,
\* holds another live key, and one node more was deleted, three keys
\* being live.
C18_Witness ==
  /\ lastOp.op = "remove" /\ lastOp.was /\ lastOp.two
  /\ count(ObjA) = 3
  /\ Cardinality(freed["a"]) = 1
  /\ iRoot["a"] = 1 /\ Q["a"][1] = 1
  /\ mem["a"][1].keystr \in DOMAIN live["a"]
  /\ mem["a"][1].left # NULL /\ mem["a"][1].right # NULL

\* C19: for any sequence of insert, remove and destroy followed by the
\* destructor, every node is deleted at most once and no call dereferences
\* a node after it was deleted.
C19_MemorySafe == ~uaf["a"] /\ ~dfree["a"] /\ ~crashed["a"]

====
